---- MODULE Spec2Model ----
(***************************************************************************)
(* Model of the peer-to-peer chat room of src/src/views/Chat.vue: the      *)
(* message log, the roster, the channel set, the four sync frames, the     *)
(* teardown, the idle-session monitor and the error notices.               *)
(*                                                                         *)
(* Every callback of the component runs to completion on one thread, so    *)
(* each callback is one action.  The transport (PeerJS data connections)   *)
(* is a pair of FIFO queues per connection, one per direction, with an     *)
(* endpoint state on either side.                                          *)
(***************************************************************************)
EXTENDS Naturals, Integers, Sequences, FiniteSets

\* ---------------------------------------------------------------- bounds
\* Largest value of the wall clock in the mesh specification (milliseconds).
MaxClock == 1
\* Offset of the clock of participant "y" from the wall clock (milliseconds).
MaxSkew == 1
\* Total number of local sends in the mesh specification.
MaxSends == 2
\* Number of participants that leave in the mesh specification.
MaxLeaves == 1
\* Longest log and roster the frame specification starts from or receives.
MaxLen == 2
\* Longest log in the clock specification.
MaxEvents == 1
\* Polls of the idle monitor the clock specification runs for.
MaxPolls == 17
\* The stride by which the clock specification advances time between polls
\* (milliseconds); an advance never jumps over a due poll.
Stride == 29999
\* Page-unload signals a client gets in the teardown specification.
MaxSignals == 2
\* Notice timers a client has pending at once in the notice specification.
MaxErrors == 2
\* The stride by which the notice specification advances time (milliseconds);
\* an advance never jumps over a due timer.
NoticeStride == 2500
\* The time the notice specification runs for (milliseconds).
MaxNoticeClock == 10000

\* ------------------------------------------------------------- identities
RoomId == "room"
Peers == {"room", "y", "z"}
Joiners == Peers \ {RoomId}

\* localStorage 'createdRoomId' equals the room id only in the creating client.
IsRoomCreator(p) == p = RoomId

\* localStorage 'username'.
Username(p) == IF p = "room" THEN "xavier" ELSE IF p = "y" THEN "yann" ELSE "zoe"

\* ------------------------------------------------------- program constants
sessionTimeout == 15 * 60 * 1000
PollInterval == 60000
MinuteMs == 60000
NoticeDelay == 5000

\* ------------------------------------------------------------ pure helpers
Min(a, b) == IF a <= b THEN a ELSE b

\* messages.value.some(m => m.id === id)
HasMessage(log, id) == \E i \in 1..Len(log) : log[i].id = id

\* participants.value.some(p => p.id === id)
HasParticipant(roster, id) == \E i \in 1..Len(roster) : roster[i].id = id

\* participants.value.findIndex(p => p.id === id), 0 for -1 (1-based otherwise).
FindIndex(roster, id) ==
  IF HasParticipant(roster, id)
  THEN CHOOSE i \in 1..Len(roster) :
         /\ roster[i].id = id
         /\ \A j \in 1..(i - 1) : roster[j].id # id
  ELSE 0

\* A plausible slip: a comparator that also moves entries of equal timestamp.
ComesBeforeOrWith(b, a) == a.timestamp - b.timestamp >= 0

\* The comparator (a, b) => a.timestamp - b.timestamp says "b goes before a"
\* when it is positive.
ComesBefore(b, a) == a.timestamp - b.timestamp > 0

\* A plausible slip: the entry stays at the end, as after a push alone.
InsertLast(sorted, m) == Append(sorted, m)

\* One step of the stable sort: m goes behind every entry that does not have
\* to come after it.
InsertSorted(sorted, m) ==
  LET ahead == {i \in 1..Len(sorted) : ComesBefore(m, sorted[i])}
      k == IF ahead = {} THEN Len(sorted) + 1
           ELSE CHOOSE i \in ahead : \A j \in ahead : i <= j
  IN  SubSeq(sorted, 1, k - 1) \o <<m>> \o SubSeq(sorted, k, Len(sorted))

RECURSIVE SortByTimestamp(_)
\* Array.prototype.sort with the timestamp comparator (stable since ES2019).
SortByTimestamp(s) ==
  IF s = <<>> THEN <<>>
  ELSE InsertSorted(SortByTimestamp(SubSeq(s, 1, Len(s) - 1)), s[Len(s)])

\* `${peerId}-${Date.now()}`: the time is the digits after the last dash, so
\* the string determines the pair and the pair stands for it.
MessageId(peer, t) == <<peer, t>>

NewMessage(p, t, c) ==
  [id |-> MessageId(p, t), sender |-> Username(p), senderId |-> p,
   content |-> c, timestamp |-> t]

SelfEntry(p) == [id |-> p, username |-> Username(p), isConnected |-> TRUE]

\* ------------------------------------------------------------------ frames
UserInfoFrame(p) ==
  [type |-> "USER_INFO", data |-> [id |-> p, username |-> Username(p)]]
InitMessagesFrame(log) == [type |-> "INIT_MESSAGES", data |-> log]
InitParticipantsFrame(roster) == [type |-> "INIT_PARTICIPANTS", data |-> roster]
NewMessageFrame(m) == [type |-> "NEW_MESSAGE", data |-> m]

\* A plausible slip: an entry that exists is brought up to date.
RefreshUserInfo(roster, d) ==
  IF ~HasParticipant(roster, d.id)
  THEN Append(roster, [id |-> d.id, username |-> d.username, isConnected |-> TRUE])
  ELSE [i \in 1..Len(roster) |->
          IF roster[i].id = d.id
          THEN [id |-> d.id, username |-> d.username, isConnected |-> TRUE]
          ELSE roster[i]]

\* case 'USER_INFO'
ApplyUserInfo(roster, d) ==
  IF ~HasParticipant(roster, d.id)
  THEN Append(roster, [id |-> d.id, username |-> d.username, isConnected |-> TRUE])
  ELSE roster

\* A plausible slip: the test of the filter is inverted.
FilterKnownMessages(log, data) ==
  SelectSeq(data, LAMBDA msg : HasMessage(log, msg.id))

\* data.data.filter(msg => !messages.value.some(m => m.id === msg.id))
FilterNewMessages(log, data) ==
  SelectSeq(data, LAMBDA msg : ~HasMessage(log, msg.id))

\* case 'INIT_MESSAGES'
MergeMessages(log, data) ==
  SortByTimestamp(log \o FilterNewMessages(log, data))

\* A plausible slip: the received roster is appended unfiltered.
FilterNoParticipants(roster, data) == data

\* data.data.filter(p => !participants.value.some(e => e.id === p.id))
FilterNewParticipants(roster, data) ==
  SelectSeq(data, LAMBDA q : ~HasParticipant(roster, q.id))

\* A plausible slip: the roster is replaced by the one received.
ReplaceParticipants(roster, data) == data

\* case 'INIT_PARTICIPANTS'
MergeParticipants(roster, data) == roster \o FilterNewParticipants(roster, data)

\* A plausible slip: the message is appended without the test for its id.
ApplyNewMessageAlways(log, m) == SortByTimestamp(Append(log, m))

\* case 'NEW_MESSAGE'
ApplyNewMessage(log, m) ==
  IF ~HasMessage(log, m.id) THEN SortByTimestamp(Append(log, m)) ELSE log

\* handlePeerData, its effect on the message log.
HandleLog(log, frame) ==
  CASE frame.type = "INIT_MESSAGES" -> MergeMessages(log, frame.data)
    [] frame.type = "NEW_MESSAGE" -> ApplyNewMessage(log, frame.data)
    [] OTHER -> log

\* handlePeerData, its effect on the roster.
HandleRoster(roster, frame) ==
  CASE frame.type = "USER_INFO" -> ApplyUserInfo(roster, frame.data)
    [] frame.type = "INIT_PARTICIPANTS" -> MergeParticipants(roster, frame.data)
    [] OTHER -> roster

\* watch(messages, ...) is a shallow watcher of the ref: it runs when
\* messages.value is assigned a new array (INIT_MESSAGES), not when the array
\* is changed in place by push and sort (NEW_MESSAGE, sendMessage).
WatcherRuns(frame) == frame.type = "INIT_MESSAGES"

\* getTimeLeft's body, in whole minutes ('<n>m').
TimeLeft(nowMs, last) ==
  LET timeLeft == sessionTimeout - (nowMs - last)
  IN  IF timeLeft <= 0 THEN 0 ELSE timeLeft \div MinuteMs

\* ------------------------------------------------------------------- state
VARIABLES
  time,              \* the wall clock, in milliseconds
  skew,              \* skew[p]: offset of p's Date.now() from the wall clock
  mounted,           \* mounted[p]: the Chat component of p is mounted
  isConnected,       \* isConnected[p]: peer.on('open') has run (peerId is set)
  destroyed,         \* destroyed[p]: peer.destroyed
  messages,          \* messages[p]: the message log
  participants,      \* participants[p]: the roster
  connections,       \* connections[p]: the keys of the channel set
  endState,          \* endState[<<p, q>>]: p's end of its connection with q
  queue,             \* queue[<<p, q>>]: frames in flight from p to q
  lastActivityTime,  \* lastActivityTime[p]
  timeLeftShown,     \* timeLeftShown[p]: the cached value of getTimeLeft
  nextPoll,          \* nextPoll[p]: when the interval timer fires next, 0 if none
  applied,           \* the frame handled last, when it came from outside the mesh
  dialed,            \* dialed[j]: what the dialed peer held when its end of
                     \* j's join channel opened (history, for the backfill)
  closeCalls,        \* closeCalls[<<p, q>>]: calls of conn.close() by
                     \* handleDisconnect on p's channel with q (history)
  destroyCalls,      \* destroyCalls[p]: calls of peer.destroy() (history)
  teardowns,         \* teardowns[p]: runs of handleDisconnect (history)
  errorMessage,      \* errorMessage[p]: the notice displayed, "" for none
  timers             \* timers[p]: when the pending setTimeout callbacks that
                     \* clear the notice are due, on the wall clock

teardownVars == <<closeCalls, destroyCalls, teardowns>>
noticeVars == <<errorMessage, timers>>

vars == <<time, skew, mounted, isConnected, destroyed, messages, participants,
          connections, endState, queue, lastActivityTime, timeLeftShown,
          nextPoll, applied, dialed, teardownVars, noticeVars>>

Links == {l \in Peers \X Peers : l[1] # l[2]}

\* Date.now() in p's browser.
Now(p) == time + skew[p]

NoFrame == [type |-> "NONE", data |-> <<>>]
NoSnapshot == [taken |-> FALSE, messages |-> <<>>, participants |-> <<>>]

\* ----------------------------------------------------------- state helpers
\* lastActivityTime.value = t, and getTimeLeft, a computed value, is
\* re-evaluated only when that reactive dependency changes.
SetActivity(p, t) ==
  /\ lastActivityTime' = [lastActivityTime EXCEPT ![p] = t]
  /\ timeLeftShown' =
       IF t # lastActivityTime[p]
       THEN [timeLeftShown EXCEPT ![p] = TimeLeft(Now(p), t)]
       ELSE timeLeftShown

\* A plausible slip: the roster entry is removed instead of flagged.
RemoveDisconnected(roster, id) == SelectSeq(roster, LAMBDA e : e.id # id)

\* conn.on('close'): the roster entry found by findIndex is flagged.
MarkDisconnected(roster, id) ==
  LET i == FindIndex(roster, id)
  IN  IF i # 0 THEN [roster EXCEPT ![i].isConnected = FALSE] ELSE roster

RECURSIVE MarkAll(_, _)
MarkAll(roster, ids) ==
  IF ids = {} THEN roster
  ELSE LET q == CHOOSE x \in ids : TRUE
       IN  MarkAll(MarkDisconnected(roster, q), ids \ {q})

\* conn.send(frame) on every channel of the set: a channel that is open
\* carries the frame, one that is not open yet drops it.
Broadcast(p, frame) ==
  [l \in Links |->
     IF l[1] = p /\ l[2] \in connections[p] /\ endState[l] = "open"
     THEN Append(queue[l], frame)
     ELSE queue[l]]

\* The channels of the set that conn.send finds not open: the frame is
\* dropped and the channel's error event is emitted.
NotOpen(p) == {q \in connections[p] : endState[<<p, q>>] # "open"}

\* peer.on('error'): the notice chosen by err.type.
PeerErrorNotice(type) ==
  CASE type = "peer-unavailable" -> "Could not connect to the room."
    [] type \in {"network", "disconnected"} -> "Network connection issue."
    [] type = "server-error" -> "PeerJS server error."
    [] OTHER -> "Connection error"

\* errorMessage.value = text, and setTimeout(..., 5000) at wall time t.
RaiseNotice(p, text, t) ==
  /\ errorMessage' = [errorMessage EXCEPT ![p] = text]
  /\ timers' = [timers EXCEPT ![p] = @ \cup {t + NoticeDelay}]

\* Number of messages a participant has sent (its own entries of its log).
OwnCount(p) == Len(SelectSeq(messages[p], LAMBDA m : m.senderId = p))

RECURSIVE SumOwn(_)
SumOwn(ps) ==
  IF ps = {} THEN 0
  ELSE LET q == CHOOSE x \in ps : TRUE IN OwnCount(q) + SumOwn(ps \ {q})

\* ------------------------------------------------------------------ actions
\* peer.on('open'): the local address is known; a non-creator dials the room.
PeerOpen(p) ==
  /\ mounted[p] /\ ~isConnected[p] /\ ~destroyed[p]
  /\ isConnected' = [isConnected EXCEPT ![p] = TRUE]
  /\ participants' = [participants EXCEPT ![p] = Append(@, SelfEntry(p))]
  /\ IF ~IsRoomCreator(p)
     THEN /\ connections' = [connections EXCEPT ![p] = @ \cup {RoomId}]
          /\ endState' = [endState EXCEPT ![<<p, RoomId>>] = "pending"]
     ELSE UNCHANGED <<connections, endState>>
  /\ UNCHANGED <<time, skew, mounted, destroyed, messages, queue,
                 lastActivityTime, timeLeftShown, nextPoll, applied, dialed,
                 teardownVars, noticeVars>>

\* peer.on('connection') in the room's creator: handleConnection(conn).
Incoming(j) ==
  /\ isConnected[RoomId] /\ ~destroyed[RoomId]
  /\ endState[<<j, RoomId>>] = "pending"
  /\ endState[<<RoomId, j>>] = "none"
  /\ connections' = [connections EXCEPT ![RoomId] = @ \cup {j}]
  /\ endState' = [endState EXCEPT ![<<RoomId, j>>] = "pending"]
  /\ UNCHANGED <<time, skew, mounted, isConnected, destroyed, messages,
                 participants, queue, lastActivityTime, timeLeftShown,
                 nextPoll, applied, dialed, teardownVars, noticeVars>>

\* The frames conn.on('open') sends: conn.metadata.joinRoom is set on both
\* ends of a join connection, the only kind of connection there is.
OpenFrames(p) ==
  <<UserInfoFrame(p), InitMessagesFrame(messages[p]),
    InitParticipantsFrame(participants[p])>>

\* conn.on('open') at p for its connection with q.
ConnOpen(p, q) ==
  /\ endState[<<p, q>>] = "pending"
  /\ endState[<<q, p>>] \in {"pending", "open"}
  /\ endState' = [endState EXCEPT ![<<p, q>>] = "open"]
  /\ queue' = [queue EXCEPT ![<<p, q>>] = @ \o OpenFrames(p)]
  /\ dialed' = IF p = RoomId
               THEN [dialed EXCEPT ![q] = [taken |-> TRUE, messages |-> messages[p],
                                           participants |-> participants[p]]]
               ELSE dialed
  /\ errorMessage' = [errorMessage EXCEPT ![p] = ""]
  /\ UNCHANGED <<time, skew, mounted, isConnected, destroyed, messages,
                 participants, connections, lastActivityTime, timeLeftShown,
                 nextPoll, applied, teardownVars, timers>>

\* handlePeerData at p, with the watcher of the log.
HandlePeerData(p, frame) ==
  /\ messages' = [messages EXCEPT ![p] = HandleLog(@, frame)]
  /\ participants' = [participants EXCEPT ![p] = HandleRoster(@, frame)]
  /\ IF WatcherRuns(frame)
     THEN SetActivity(p, Now(p))
     ELSE UNCHANGED <<lastActivityTime, timeLeftShown>>

\* conn.on('data') at p: the oldest frame in flight from q is handled.
Deliver(p, q) ==
  /\ endState[<<p, q>>] = "open"
  /\ queue[<<q, p>>] # <<>>
  /\ HandlePeerData(p, Head(queue[<<q, p>>]))
  /\ queue' = [queue EXCEPT ![<<q, p>>] = Tail(@)]
  /\ UNCHANGED <<time, skew, mounted, isConnected, destroyed, connections,
                 endState, nextPoll, applied, dialed, teardownVars, noticeVars>>

\* sendMessage with a non-blank input, d milliseconds after the last event.
\* The three readings of Date.now() in it are taken to agree.
SendMessage(p, c, d) ==
  /\ mounted[p] /\ isConnected[p]
  /\ time' = time + d
  /\ LET newMessage == NewMessage(p, Now(p) + d, c)
     IN  /\ messages' = [messages EXCEPT ![p] = Append(@, newMessage)]
         /\ queue' = Broadcast(p, NewMessageFrame(newMessage))
  /\ lastActivityTime' = [lastActivityTime EXCEPT ![p] = Now(p) + d]
  /\ timeLeftShown' =
       IF Now(p) + d # lastActivityTime[p]
       THEN [timeLeftShown EXCEPT ![p] = TimeLeft(Now(p) + d, Now(p) + d)]
       ELSE timeLeftShown
  /\ IF NotOpen(p) # {}
     THEN RaiseNotice(p, "Connection error", time + d)
     ELSE UNCHANGED noticeVars
  /\ UNCHANGED <<skew, mounted, isConnected, destroyed, participants,
                 connections, endState, nextPoll, applied, dialed, teardownVars>>

\* A plausible slip: the peer is destroyed without looking at its state.
DestroyAlways(p) == TRUE

\* if (peer.value && !peer.value.destroyed)
ShouldDestroy(p) == ~destroyed[p]

\* handleDisconnect: every open channel is closed, which runs its close
\* handler at once, and the peer, unless destroyed already, is destroyed,
\* which ends the channels that never opened without a close signal.
HandleDisconnect(p) ==
  LET open == {q \in connections[p] : endState[<<p, q>>] = "open"}
  IN  /\ connections' = [connections EXCEPT ![p] = @ \ open]
      /\ participants' = [participants EXCEPT ![p] = MarkAll(@, open)]
      /\ closeCalls' = [l \in Links |->
           IF l[1] = p /\ l[2] \in open THEN closeCalls[l] + 1 ELSE closeCalls[l]]
      /\ endState' = [l \in Links |->
           IF l[1] = p /\ endState[l] \in {"pending", "open"}
           THEN "closed" ELSE endState[l]]
      /\ queue' = [l \in Links |-> IF l[2] = p THEN <<>> ELSE queue[l]]
      /\ destroyCalls' = [destroyCalls EXCEPT ![p] = IF ShouldDestroy(p) THEN @ + 1 ELSE @]
      /\ destroyed' = [destroyed EXCEPT ![p] = TRUE]
      /\ teardowns' = [teardowns EXCEPT ![p] = @ + 1]

\* The beforeunload listener: teardown while the component stays mounted.
PageUnload(p) ==
  /\ mounted[p]
  /\ HandleDisconnect(p)
  /\ UNCHANGED <<time, skew, mounted, isConnected, messages, lastActivityTime,
                 timeLeftShown, nextPoll, applied, dialed, noticeVars>>

\* onBeforeUnmount: teardown, and the interval timer is cleared.
Unmount(p) ==
  /\ HandleDisconnect(p)
  /\ mounted' = [mounted EXCEPT ![p] = FALSE]
  /\ nextPoll' = [nextPoll EXCEPT ![p] = 0]

\* The user leaves: router.push('/') unmounts the component.
Leave(p) ==
  /\ mounted[p]
  /\ Unmount(p)
  /\ UNCHANGED <<time, skew, isConnected, messages, lastActivityTime,
                 timeLeftShown, applied, dialed, noticeVars>>

\* conn.on('close') at p after the other end went away.
RemoteClose(p, q) ==
  /\ endState[<<p, q>>] = "open"
  /\ endState[<<q, p>>] = "closed"
  /\ endState' = [endState EXCEPT ![<<p, q>>] = "closed"]
  /\ connections' = [connections EXCEPT ![p] = @ \ {q}]
  /\ participants' = [participants EXCEPT ![p] = MarkDisconnected(@, q)]
  /\ queue' = [queue EXCEPT ![<<q, p>>] = <<>>]
  /\ UNCHANGED <<time, skew, mounted, isConnected, destroyed, messages,
                 lastActivityTime, timeLeftShown, nextPoll, applied, dialed,
                 teardownVars, noticeVars>>

\* A plausible slip: the time of the last activity is left out.
ExpiredSinceMount(currentTime, last) == currentTime > sessionTimeout

\* timeSinceLastActivity > sessionTimeout
Expired(currentTime, last) == currentTime - last > sessionTimeout

\* The interval callback of setupTimeoutCheck.
Poll(p) ==
  /\ mounted[p] /\ nextPoll[p] = time
  /\ IF Expired(Now(p), lastActivityTime[p])
     THEN /\ Unmount(p)
          /\ UNCHANGED <<isConnected, messages>>
     ELSE /\ nextPoll' = [nextPoll EXCEPT ![p] = @ + PollInterval]
          /\ UNCHANGED <<mounted, isConnected, destroyed, messages,
                         participants, connections, endState, queue,
                         teardownVars>>
  /\ UNCHANGED <<time, skew, lastActivityTime, timeLeftShown, applied, dialed,
                 noticeVars>>

\* The polls of the mounted components and the notice timers that are due.
PollsDue == {nextPoll[p] : p \in {q \in Peers : mounted[q]}}
TimersDue == UNION {timers[p] : p \in Peers}
EarliestDue ==
  CHOOSE t \in PollsDue \cup TimersDue : \A u \in PollsDue \cup TimersDue : t <= u

\* Time passes, up to the next poll or timer at most.
Advance(d) ==
  /\ PollsDue \cup TimersDue # {}
  /\ time < EarliestDue
  /\ time < MaxPolls * PollInterval
  /\ time' = Min(time + d, EarliestDue)
  /\ UNCHANGED <<skew, mounted, isConnected, destroyed, messages, participants,
                 connections, endState, queue, lastActivityTime, timeLeftShown,
                 nextPoll, applied, dialed, teardownVars, noticeVars>>

\* peer.on('error') at p with an error of the given type that leaves the peer
\* in use; 'peer-unavailable' answers a dial to an address nobody holds.
PeerError(p, type) ==
  /\ mounted[p] /\ isConnected[p] /\ ~destroyed[p]
  /\ type = "peer-unavailable" =>
       /\ ~IsRoomCreator(p)
       /\ endState[<<p, RoomId>>] = "pending"
       /\ ~mounted[RoomId] \/ destroyed[RoomId]
  /\ RaiseNotice(p, PeerErrorNotice(type), time)
  /\ UNCHANGED <<time, skew, mounted, isConnected, destroyed, messages,
                 participants, connections, endState, queue, lastActivityTime,
                 timeLeftShown, nextPoll, applied, dialed, teardownVars>>

\* conn.on('error') at p on its channel with q.
ConnError(p, q) ==
  /\ mounted[p]
  /\ q \in connections[p]
  /\ endState[<<p, q>>] \in {"pending", "open"}
  /\ RaiseNotice(p, "Connection error", time)
  /\ UNCHANGED <<time, skew, mounted, isConnected, destroyed, messages,
                 participants, connections, endState, queue, lastActivityTime,
                 timeLeftShown, nextPoll, applied, dialed, teardownVars>>

\* A setTimeout callback of an error handler runs: errorMessage.value = ''.
NoticeTimeout(p) ==
  /\ time \in timers[p]
  /\ errorMessage' = [errorMessage EXCEPT ![p] = ""]
  /\ timers' = [timers EXCEPT ![p] = @ \ {time}]
  /\ UNCHANGED <<time, skew, mounted, isConnected, destroyed, messages,
                 participants, connections, endState, queue, lastActivityTime,
                 timeLeftShown, nextPoll, applied, dialed, teardownVars>>

\* A frame arrives from a peer that is not modelled further.
EnvFrame(p, frame) ==
  /\ mounted[p] /\ isConnected[p]
  /\ HandlePeerData(p, frame)
  /\ applied' = frame
  /\ UNCHANGED <<time, skew, mounted, isConnected, destroyed, connections,
                 endState, queue, nextPoll, dialed, teardownVars, noticeVars>>

\* ------------------------------------------------------ mesh specification
Contents == {"hi"}

InitIdle ==
  /\ time = 0
  /\ destroyed = [p \in Peers |-> FALSE]
  /\ connections = [p \in Peers |-> {}]
  /\ endState = [l \in Links |-> "none"]
  /\ queue = [l \in Links |-> <<>>]
  /\ lastActivityTime = [p \in Peers |-> skew[p]]
  /\ timeLeftShown = [p \in Peers |-> TimeLeft(skew[p], skew[p])]
  /\ applied = NoFrame
  /\ dialed = [j \in Joiners |-> NoSnapshot]
  /\ closeCalls = [l \in Links |-> 0]
  /\ destroyCalls = [p \in Peers |-> 0]
  /\ teardowns = [p \in Peers |-> 0]
  /\ errorMessage = [p \in Peers |-> ""]
  /\ timers = [p \in Peers |-> {}]

\* Every client has the chat page open; none has its address yet.
Init ==
  /\ skew = [p \in Peers |-> IF p = "y" THEN MaxSkew ELSE 0]
  /\ mounted = [p \in Peers |-> TRUE]
  /\ messages = [p \in Peers |-> <<>>]
  /\ participants = [p \in Peers |-> <<>>]
  /\ nextPoll = [p \in Peers |-> PollInterval]
  /\ isConnected = [p \in Peers |-> FALSE]
  /\ InitIdle

Next ==
  \/ \E p \in Peers : PeerOpen(p)
  \/ \E j \in Joiners : Incoming(j)
  \/ \E l \in Links : ConnOpen(l[1], l[2])
  \/ \E l \in Links : Deliver(l[1], l[2])
  \/ \E p \in Peers : \E c \in Contents : \E d \in 0..(MaxClock - time) :
       SumOwn(Peers) < MaxSends /\ SendMessage(p, c, d)
  \/ \E p \in Peers : Cardinality({q \in Peers : ~mounted[q]}) < MaxLeaves /\ Leave(p)
  \/ \E l \in Links : RemoteClose(l[1], l[2])

Spec == Init /\ [][Next]_vars

\* ----------------------------------------------------- clock specification
\* One client, the room's creator, with the idle monitor running; frames
\* reach it from a peer "y" whose clock agrees with its own.
ClockInit ==
  /\ skew = [p \in Peers |-> 0]
  /\ mounted = [p \in Peers |-> p = RoomId]
  /\ messages = [p \in Peers |-> <<>>]
  /\ participants = [p \in Peers |-> <<>>]
  /\ nextPoll = [p \in Peers |-> IF p = RoomId THEN PollInterval ELSE 0]
  /\ isConnected = [p \in Peers |-> FALSE]
  /\ InitIdle

ClockFrames(p) ==
  {NewMessageFrame(NewMessage("y", Now(p), "hi")),
   InitMessagesFrame(<<>>),
   InitMessagesFrame(<<NewMessage("y", Now(p), "hi")>>),
   UserInfoFrame("y")}

ClockNext ==
  \/ PeerOpen(RoomId)
  \/ \E c \in Contents : Len(messages[RoomId]) < MaxEvents /\ SendMessage(RoomId, c, 0)
  \/ \E f \in ClockFrames(RoomId) :
       Len(messages[RoomId]) < MaxEvents /\ EnvFrame(RoomId, f)
  \/ Advance(Stride)
  \/ Poll(RoomId)

ClockSpec == ClockInit /\ [][ClockNext]_vars

\* -------------------------------------------------- teardown specification
\* The creator and one joiner, which send nothing; each may get the
\* page-unload signal, leave, or sit idle until the monitor ends its session,
\* in any order.
TeardownInit ==
  /\ skew = [p \in Peers |-> 0]
  /\ mounted = [p \in Peers |-> p \in {RoomId, "y"}]
  /\ messages = [p \in Peers |-> <<>>]
  /\ participants = [p \in Peers |-> <<>>]
  /\ nextPoll = [p \in Peers |-> IF p \in {RoomId, "y"} THEN PollInterval ELSE 0]
  /\ isConnected = [p \in Peers |-> FALSE]
  /\ InitIdle

TeardownNext ==
  \/ \E p \in Peers : PeerOpen(p)
  \/ \E j \in Joiners : Incoming(j)
  \/ \E l \in Links : ConnOpen(l[1], l[2])
  \/ \E l \in Links : Deliver(l[1], l[2])
  \/ \E p \in Peers : teardowns[p] < MaxSignals /\ PageUnload(p)
  \/ \E p \in Peers : Leave(p)
  \/ \E l \in Links : RemoteClose(l[1], l[2])
  \/ Advance(PollInterval)
  \/ \E p \in Peers : Poll(p)

TeardownSpec == TeardownInit /\ [][TeardownNext]_vars

\* ---------------------------------------------------- notice specification
\* The creator and one joiner with errors of the transport and of channels
\* at any moment, sends on channels that are not open, and the creator
\* leaving, so that the joiner may dial an address nobody holds.
ErrorTypes == {"peer-unavailable", "network", "webrtc"}

NoticeInit ==
  /\ skew = [p \in Peers |-> 0]
  /\ mounted = [p \in Peers |-> p \in {RoomId, "y"}]
  /\ messages = [p \in Peers |-> <<>>]
  /\ participants = [p \in Peers |-> <<>>]
  /\ nextPoll = [p \in Peers |-> IF p \in {RoomId, "y"} THEN PollInterval ELSE 0]
  /\ isConnected = [p \in Peers |-> FALSE]
  /\ InitIdle

NoticeNext ==
  \/ \E p \in Peers : PeerOpen(p)
  \/ \E j \in Joiners : Incoming(j)
  \/ \E l \in Links : ConnOpen(l[1], l[2])
  \/ \E p \in Peers : \E type \in ErrorTypes :
       Cardinality(timers[p]) < MaxErrors /\ PeerError(p, type)
  \/ \E l \in Links : Cardinality(timers[l[1]]) < MaxErrors /\ ConnError(l[1], l[2])
  \/ \E p \in Peers : \E c \in Contents :
       Len(messages[p]) < MaxEvents /\ SendMessage(p, c, 0)
  \/ \E p \in Peers : NoticeTimeout(p)
  \/ time < MaxNoticeClock /\ Advance(NoticeStride)
  \/ Leave(RoomId)

NoticeSpec == NoticeInit /\ [][NoticeNext]_vars

\* ----------------------------------------------------- frame specification
\* handlePeerData as a function of the log, the roster and the frame: the
\* log and the roster start as any short sequences of these entries, sorted
\* or not, with or without repeated ids.
MessageInputs ==
  {NewMessage("y", 1, "hi"), NewMessage("z", 1, "hi"), NewMessage("y", 0, "hi")}

ParticipantInputs ==
  {[id |-> "y", username |-> "yann", isConnected |-> TRUE],
   [id |-> "y", username |-> "yan", isConnected |-> FALSE],
   [id |-> "z", username |-> "zoe", isConnected |-> TRUE]}

SeqsUpTo(S, n) == UNION {[1..k -> S] : k \in 0..n}

FrameInputs ==
  {UserInfoFrame(q) : q \in Joiners}
    \cup {InitMessagesFrame(l) : l \in SeqsUpTo(MessageInputs, MaxLen)}
    \cup {InitParticipantsFrame(r) : r \in SeqsUpTo(ParticipantInputs, MaxLen)}
    \cup {NewMessageFrame(m) : m \in MessageInputs}

FrameInit ==
  /\ skew = [p \in Peers |-> 0]
  /\ mounted = [p \in Peers |-> p = RoomId]
  /\ messages \in {[p \in Peers |-> IF p = RoomId THEN l ELSE <<>>] :
                     l \in SeqsUpTo(MessageInputs, MaxLen)}
  /\ participants \in {[p \in Peers |-> IF p = RoomId THEN <<SelfEntry(p)>> \o r ELSE <<>>] :
                         r \in SeqsUpTo(ParticipantInputs, MaxLen)}
  /\ nextPoll = [p \in Peers |-> IF p = RoomId THEN PollInterval ELSE 0]
  /\ isConnected = [p \in Peers |-> p = RoomId]
  /\ InitIdle

\* One frame is handled.
FrameNext == \E f \in FrameInputs : applied = NoFrame /\ EnvFrame(RoomId, f)

FrameSpec == FrameInit /\ [][FrameNext]_vars

\* ------------------------------------------------------------------ claims
MessageIds(log) == {log[i].id : i \in 1..Len(log)}
RosterIds(roster) == {roster[i].id : i \in 1..Len(roster)}
Elements(s) == {s[i] : i \in 1..Len(s)}

\* C1: in every reachable state no log holds two entries with equal id.
C1_UniqueMessageIds ==
  \A p \in Peers : \A i, j \in 1..Len(messages[p]) :
    i # j => messages[p][i].id # messages[p][j].id

\* Every participant has joined, every channel is open at both ends and no
\* frame is in flight: nothing but a new send can change a log any more.
MeshSettled ==
  /\ \A p \in Peers : mounted[p] /\ isConnected[p]
  /\ \A j \in Joiners : endState[<<j, RoomId>>] = "open" /\ endState[<<RoomId, j>>] = "open"
  /\ \A l \in Links : queue[l] = <<>>

\* C2: with all channels open and nothing left in flight, the logs of all
\* participants hold the same set of message ids.
C2_SettledLogsAgree ==
  MeshSettled =>
    \A p, q \in Peers : MessageIds(messages[p]) = MessageIds(messages[q])

\* The backfill of j is no longer in flight on its open join channel.
BackfillArrived(j) ==
  /\ dialed[j].taken
  /\ endState[<<j, RoomId>>] = "open"
  /\ \A i \in 1..Len(queue[<<RoomId, j>>]) :
       queue[<<RoomId, j>>][i].type \notin {"INIT_MESSAGES", "INIT_PARTICIPANTS"}

HoldsEntry(roster, e) ==
  \E i \in 1..Len(roster) : roster[i].id = e.id /\ roster[i].username = e.username

\* C3: once the frames the dialed peer sent when its end of the join channel
\* opened have reached the newcomer, the newcomer holds every message and
\* every roster entry the dialed peer held at that moment.  (That the frames
\* do arrive while the channel stays open is the transport's part.)
C3_BackfillHeld ==
  \A j \in Joiners :
    BackfillArrived(j) =>
      /\ Elements(dialed[j].messages) \subseteq Elements(messages[j])
      /\ \A e \in Elements(dialed[j].participants) : HoldsEntry(participants[j], e)

\* Scenario 6: "z" was backfilled a log with a message and a roster of two.
C3_Witness ==
  /\ BackfillArrived("z")
  /\ Len(dialed["z"].messages) >= 1
  /\ Len(dialed["z"].participants) >= 2

\* C4: the frame just applied, applied once more, changes neither the log
\* nor the roster.
C4_Idempotent ==
  applied # NoFrame =>
    /\ HandleLog(messages[RoomId], applied) = messages[RoomId]
    /\ HandleRoster(participants[RoomId], applied) = participants[RoomId]

\* A NEW_MESSAGE frame was applied to a log that holds two more entries.
C4_Witness ==
  /\ applied.type = "NEW_MESSAGE"
  /\ Len(messages[RoomId]) = 3
  /\ Len(participants[RoomId]) = 3

IsSorted(log) ==
  \A i, j \in 1..Len(log) : i < j => log[i].timestamp <= log[j].timestamp

WithTimestamp(log, t) == SelectSeq(log, LAMBDA m : m.timestamp = t)

MergedAs(A, B, R) ==
  LET survivors == SelectSeq(B, LAMBDA m : m.id \notin MessageIds(A))
  IN  /\ MessageIds(R) = MessageIds(A) \cup MessageIds(B)
      /\ IsSorted(R)
      /\ \A m \in Elements(A \o B) :
           WithTimestamp(R, m.timestamp) = WithTimestamp(A \o survivors, m.timestamp)

\* C5: an INIT_MESSAGES frame with log B applied to log A leaves a log with
\* the ids of A and B, in non-decreasing timestamp order, entries of equal
\* timestamp in the order they had in A followed by the order of arrival.
C5_MergeComplete ==
  [][applied'.type = "INIT_MESSAGES" =>
       MergedAs(messages[RoomId], applied'.data, messages'[RoomId])]_vars

\* A backfill was merged into a log that now holds entries of equal timestamp.
C5_Witness ==
  /\ applied.type = "INIT_MESSAGES"
  /\ Len(applied.data) = 2
  /\ \E i, j \in 1..Len(messages[RoomId]) :
       /\ i < j
       /\ messages[RoomId][i].timestamp = messages[RoomId][j].timestamp
       /\ messages[RoomId][i].id # messages[RoomId][j].id

\* C6: every step that adds a message to a log sets lastActivityTime to the
\* current time.
C6_ActivityOnEveryMessage ==
  [][\A p \in Peers :
       Len(messages'[p]) > Len(messages[p]) =>
         lastActivityTime'[p] = time' + skew'[p]]_vars

\* C7: the monitor never ends the session before the idle threshold is
\* reached, a session that is still running meets its next poll no later
\* than one poll interval after the threshold was reached, and the session
\* that the monitor ended is torn down as by leaving.
C7_IdleExpiry ==
  \A p \in Peers :
    /\ (mounted[p] /\ nextPoll[p] # 0) =>
         /\ time <= nextPoll[p]
         /\ nextPoll[p] + skew[p] <= lastActivityTime[p] + sessionTimeout + PollInterval
    /\ (~mounted[p] /\ p = RoomId) =>
         /\ Now(p) - lastActivityTime[p] >= sessionTimeout
         /\ Now(p) - lastActivityTime[p] <= sessionTimeout + PollInterval
         /\ destroyed[p] /\ nextPoll[p] = 0
         /\ \A q \in connections[p] : endState[<<p, q>>] # "open"

\* The session expired after activity in it, at the latest possible poll.
C7_Witness ==
  /\ ~mounted[RoomId]
  /\ lastActivityTime[RoomId] = PollInterval
  /\ Now(RoomId) - lastActivityTime[RoomId] = sessionTimeout + PollInterval

\* C8: at every moment of a session the value shown is the idle threshold
\* less the idle time, clamped to zero, in whole minutes.
C8_TimeLeftCurrent ==
  \A p \in Peers :
    mounted[p] => timeLeftShown[p] = TimeLeft(Now(p), lastActivityTime[p])

\* The peers whose channel at p gets its close signal in this step.
ClosedNow(p) ==
  {q \in Peers \ {p} : endState[<<p, q>>] = "open" /\ endState'[<<p, q>>] = "closed"}

\* C9: a close signal removes the peer from the channel set and flags its
\* roster entry disconnected, leaving the entry, its username, every other
\* roster entry and the log as they were.
C9_CloseFlagsEntry ==
  [][\A p \in Peers :
       ClosedNow(p) # {} =>
         /\ connections'[p] = connections[p] \ ClosedNow(p)
         /\ messages'[p] = messages[p]
         /\ Len(participants'[p]) = Len(participants[p])
         /\ \A i \in 1..Len(participants[p]) :
              participants'[p][i] =
                IF participants[p][i].id \in ClosedNow(p)
                THEN [participants[p][i] EXCEPT !.isConnected = FALSE]
                ELSE participants[p][i]]_vars

\* Scenario 4: the creator saw the channel of "y" close.
C9_Witness ==
  /\ endState[<<RoomId, "y">>] = "closed"
  /\ mounted[RoomId]
  /\ "y" \notin connections[RoomId]
  /\ \E i \in 1..Len(participants[RoomId]) :
       participants[RoomId][i] = [id |-> "y", username |-> "yann", isConnected |-> FALSE]
  /\ Len(participants[RoomId]) = 3

\* C10: in every reachable state no roster holds two entries with equal id.
C10_UniqueRosterIds ==
  \A p \in Peers : \A i, j \in 1..Len(participants[p]) :
    i # j => participants[p][i].id # participants[p][j].id

\* A newcomer's roster after its own address, a USER_INFO and a backfill.
C10_Witness ==
  /\ Len(participants["z"]) = 3
  /\ Len(participants[RoomId]) = 3

\* C11: no step removes an entry from a roster or changes its place, its id
\* or its username; a roster only grows at its end and only flags change.
C11_RosterRetained ==
  [][\A p \in Peers :
       /\ Len(participants'[p]) >= Len(participants[p])
       /\ \A i \in 1..Len(participants[p]) :
            /\ participants'[p][i].id = participants[p][i].id
            /\ participants'[p][i].username = participants[p][i].username]_vars

\* The roster of "y" grew to three entries and the creator's entry, flagged
\* disconnected after the creator left, is still in it.
C11_Witness ==
  /\ Len(participants["y"]) = 3
  /\ mounted["y"]
  /\ \E i \in 1..3 :
       participants["y"][i] = [id |-> RoomId, username |-> "xavier", isConnected |-> FALSE]

\* C12: however many times and in whatever order the teardown runs (page
\* unload, leave, idle expiry), handleDisconnect calls close() on each channel
\* at most once and destroy() on the peer exactly once.
C12_TeardownOnce ==
  /\ \A l \in Links : closeCalls[l] <= 1
  /\ \A p \in Peers : destroyCalls[p] = IF teardowns[p] > 0 THEN 1 ELSE 0

\* The creator got the page-unload signal twice with its channel to "y"
\* open, and its session was then ended by the idle monitor.
C12_Witness ==
  /\ teardowns[RoomId] = 3
  /\ closeCalls[<<RoomId, "y">>] = 1
  /\ ~mounted[RoomId]
  /\ time >= sessionTimeout

CarriesBackfill(frames) ==
  \E i \in 1..Len(frames) : frames[i].type \in {"INIT_MESSAGES", "INIT_PARTICIPANTS"}

\* C13: the backfill frames travel in one direction of a join channel only.
\* A frame is handled only after the receiving end has opened, so what the
\* end that opens first sent is still in flight when the other end opens:
\* backfill frames are never in flight in both directions of one channel.
C13_BackfillOneWay ==
  \A j \in Joiners :
    ~(CarriesBackfill(queue[<<j, RoomId>>]) /\ CarriesBackfill(queue[<<RoomId, j>>]))

\* C14: once every client has joined, every join channel is open at both
\* ends and nothing is in flight, each participant holds an open channel
\* with every other participant.
C14_FullMesh ==
  MeshSettled =>
    \A l \in Links : l[2] \in connections[l[1]] /\ endState[l] = "open"

\* C15: in every reachable state every key of a channel set is the address
\* of a channel whose end at that participant is open.
C15_EntriesAreOpen ==
  \A p \in Peers : \A q \in connections[p] : endState[<<p, q>>] = "open"

IdsInOrder(log) == [i \in 1..Len(log) |-> log[i].id]

NoRepeatedId(log) ==
  \A i, j \in 1..Len(log) : i # j => log[i].id # log[j].id

\* C16: two participants whose logs hold the same message ids, each once,
\* hold them in the same order.
C16_SameIdsSameOrder ==
  \A p, q \in Peers :
    (/\ NoRepeatedId(messages[p]) /\ NoRepeatedId(messages[q])
     /\ MessageIds(messages[p]) = MessageIds(messages[q]))
      => IdsInOrder(messages[p]) = IdsInOrder(messages[q])

\* Every handler that raises a notice starts a timer, so the timer that is
\* due last was started with the notice displayed.
DueLast(p) == CHOOSE t \in timers[p] : \A u \in timers[p] : u <= t

\* C17: a notice that is displayed has its timer pending, and a step that
\* clears it is taken when that timer is due, NoticeDelay after the notice
\* was raised, not before.
C17_NoticeLastsItsDelay ==
  [][\A p \in Peers :
       errorMessage[p] # "" =>
         /\ timers[p] # {}
         /\ errorMessage'[p] = "" => time' = DueLast(p)]_vars

\* The frame handled in this step is a merge: a backfill of messages, or a
\* message whose id the log did not hold.
MergeStep ==
  \/ applied'.type = "INIT_MESSAGES"
  \/ /\ applied'.type = "NEW_MESSAGE"
     /\ ~HasMessage(messages[RoomId], applied'.data.id)

\* C18: right after a merge the whole log is in non-decreasing timestamp
\* order, whatever order it was in before.
C18_SortedAfterMerge ==
  [][MergeStep => IsSorted(messages'[RoomId])]_vars

\* A message with the earliest timestamp was received and now comes first
\* in a log of three.
C18_Witness ==
  /\ applied.type = "NEW_MESSAGE"
  /\ Len(messages[RoomId]) = 3
  /\ messages[RoomId][1] = applied.data
  /\ messages[RoomId][2].timestamp > applied.data.timestamp

\* C19: a USER_INFO frame leaves the log as it was; it leaves the roster as
\* it was when the roster holds an entry with the id, and otherwise adds
\* one entry at its end, with the id and the username received, flagged
\* connected.
C19_UserInfoEffect ==
  [][applied'.type = "USER_INFO" =>
       /\ messages'[RoomId] = messages[RoomId]
       /\ participants'[RoomId] =
            IF applied'.data.id \in RosterIds(participants[RoomId])
            THEN participants[RoomId]
            ELSE participants[RoomId] \o
                   <<[id |-> applied'.data.id, username |-> applied'.data.username,
                      isConnected |-> TRUE]>>]_vars

\* USER_INFO of "y" was handled and the roster holds the entry of "y" under
\* another username, flagged disconnected.
C19_Witness ==
  /\ applied = UserInfoFrame("y")
  /\ \E i \in 1..Len(participants[RoomId]) :
       participants[RoomId][i] = [id |-> "y", username |-> "yan", isConnected |-> FALSE]

\* C20: in every reachable state every log is in non-decreasing timestamp
\* order.
C20_LogAlwaysSorted == \A p \in Peers : IsSorted(messages[p])

\* C21: in every reachable state of a mounted participant, each roster entry
\* other than its own that is flagged connected has its id among the keys of
\* the participant's channel set.
C21_ConnectedEntriesHaveChannel ==
  \A p \in Peers :
    mounted[p] =>
      \A i \in 1..Len(participants[p]) :
        (participants[p][i].id # p /\ participants[p][i].isConnected)
          => participants[p][i].id \in connections[p]

====
